---- MODULE Spec2Model ----
(***************************************************************************)
(* REST_API of src/utils/curdHelper.js: generic getAll / getDataListByField *)
(* / update / delete / create over a paranoid (soft-delete) Sequelize       *)
(* model.  Every await of a handler is one step; the store, the             *)
(* transaction object and the logger are the environment, and each of      *)
(* their calls may resolve or reject.                                       *)
(***************************************************************************)
EXTENDS Integers, Sequences, FiniteSets, TLC

VARIABLES
  store,      \* committed table: id -> row (what a statement outside any transaction reads)
  nextId,     \* the table's auto-increment counter
  returning,  \* whether the dialect honours `returning: true` (model.update resolves [n, rows]) or not ([n])
  req,        \* per request slot: the create/update call in flight and where it is suspended
  last,       \* the call that settled in the latest step, as its caller and the logger saw it (NoCall when none did)
  deletedOk   \* ids for which delete() has returned "deleted"

vars == <<store, nextId, returning, req, last, deletedOk>>

(* ------------------------------ bounds --------------------------------- *)
MaxId == 2
MaxPage == 3
MaxLimit == 2

(* ------------------------- program constants --------------------------- *)
DefaultPage == 1
DefaultLimit == 10

Procs == {"r1", "r2"}

(* --------------------------- JS strings -------------------------------- *)
\* A string is the sequence of its characters.
S_title == <<"t", "i", "t", "l", "e">>
S_org == <<"o", "r", "g">>
S_n == <<"n">>
S_asc == <<"a", "s", "c">>
S_Desc == <<"D", "e", "s", "c">>
S_desc == <<"d", "e", "s", "c">>
S_ASC == <<"A", "S", "C">>
S_DESC == <<"D", "E", "S", "C">>
Colon == ":"

\* String.prototype.toUpperCase on the letters that occur.
UpperChar(c) ==
  CASE c = "a" -> "A" [] c = "s" -> "S" [] c = "c" -> "C" [] c = "d" -> "D"
    [] c = "e" -> "E" [] OTHER -> c

ToUpperCase(s) == [i \in 1..Len(s) |-> UpperChar(s[i])]

\* String.prototype.split(":"): the segments between the separators.
RECURSIVE SplitColon(_)
SplitColon(s) ==
  IF \A i \in 1..Len(s) : s[i] # Colon
  THEN <<s>>
  ELSE LET i == CHOOSE k \in 1..Len(s) : s[k] = Colon /\ \A j \in 1..(k - 1) : s[j] # Colon
       IN  <<SubSeq(s, 1, i - 1)>> \o SplitColon(SubSeq(s, i + 1, Len(s)))

\* parseInt on the integers the pagination options take.
ParseInt(x) == x

\* Math.ceil(a / b) for a >= 0, b >= 1.
CeilDiv(a, b) == IF a % b = 0 THEN a \div b ELSE (a \div b) + 1

(* ----------------------------- the model ------------------------------- *)
\* model.rawAttributes: attribute -> type.  deletedAt is the paranoid column.
RawAttributes ==
  [id |-> "INTEGER", title |-> "STRING", org |-> "STRING", n |-> "INTEGER", deleted |-> "DATE"]

AttrKeys == <<"id", "title", "org", "n", "deleted">>

\* The column an attribute name (as characters) denotes; "?" when there is none.
ColumnOf(name) ==
  CASE name = S_title -> "title" [] name = S_org -> "org" [] name = S_n -> "n" [] OTHER -> "?"

OpOr == "Op.or"

(* -------------------------- SQL the store runs ------------------------- *)
\* s LIKE pat: % matches any run of characters, _ any one character.
RECURSIVE Like(_, _)
Like(s, pat) ==
  IF pat = <<>> THEN s = <<>>
  ELSE IF Head(pat) = "%" THEN Like(s, Tail(pat)) \/ (s # <<>> /\ Like(Tail(s), pat))
  ELSE IF Head(pat) = "_" THEN s # <<>> /\ Like(Tail(s), Tail(pat))
  ELSE s # <<>> /\ Head(s) = Head(pat) /\ Like(Tail(s), Tail(pat))

\* One row against a where object: every key must hold; Op.or holds when one
\* of its terms does (none of no terms).
Satisfies(row, where) ==
  \A k \in DOMAIN where :
    IF k = OpOr
    THEN \E i \in 1..Len(where[k]) : Like(row[where[k][i].attr], where[k][i].like)
    ELSE row[k] = where[k]

\* Selected without the paranoid clause: deleted rows are seen too.
SelectedDeletedToo(s, where, paranoid) == {i \in DOMAIN s : Satisfies(s[i], where)}

\* The rows a statement with this where sees: a paranoid model adds
\* deletedAt IS NULL unless paranoid is switched off.
Selected(s, where, paranoid) ==
  {i \in DOMAIN s : (paranoid => ~s[i].deleted) /\ Satisfies(s[i], where)}

CharRank(c) ==
  CASE c = "a" -> 1 [] c = "b" -> 2 [] c = "c" -> 3 [] OTHER -> 0

RECURSIVE StrLess(_, _)
StrLess(a, b) ==
  IF b = <<>> THEN FALSE
  ELSE IF a = <<>> THEN TRUE
  ELSE IF Head(a) = Head(b) THEN StrLess(Tail(a), Tail(b))
  ELSE CharRank(Head(a)) < CharRank(Head(b))

ValueLess(col, a, b) == IF RawAttributes[col] = "STRING" THEN StrLess(a, b) ELSE a < b

\* ORDER BY: row i comes before row j.  Ties, and a statement without ORDER
\* BY, follow the primary key.
Before(s, order, i, j) ==
  IF order = <<>> THEN i < j
  ELSE LET col == ColumnOf(order[1][1])
           dir == order[1][2]
       IN  IF s[i][col] = s[j][col] THEN i < j
           ELSE IF dir = S_DESC THEN ValueLess(col, s[j][col], s[i][col])
           ELSE ValueLess(col, s[i][col], s[j][col])

RECURSIVE Ordered(_, _, _)
Ordered(s, order, ids) ==
  IF ids = {} THEN <<>>
  ELSE LET f == CHOOSE i \in ids : \A j \in ids \ {i} : Before(s, order, i, j)
       IN  <<s[f]>> \o Ordered(s, order, ids \ {f})

\* An ordering term the store accepts: a column and ASC or DESC.
OrderValid(order) ==
  \A k \in 1..Len(order) : ColumnOf(order[k][1]) # "?" /\ order[k][2] \in {S_ASC, S_DESC}

\* model.findAndCountAll(options)
FindAndCountAll(s, options) ==
  LET ids == Selected(s, options.where, options.paranoid)
      all == Ordered(s, options.order, ids)
      lo == options.offset + 1
      hi == IF options.offset + options.limit < Len(all)
            THEN options.offset + options.limit ELSE Len(all)
  IN  [count |-> Cardinality(ids), rows |-> SubSeq(all, lo, hi)]

\* model.findAll(options)
FindAll(s, options) == Ordered(s, <<>>, Selected(s, options.where, options.paranoid))

(* ------------------------------ errors --------------------------------- *)
NoError == "none"
TypeError == "TypeError"
StoreError == "StoreError"
TxOpenError == "TxOpenError"
CommitError == "CommitError"
RollbackError == "RollbackError"
TxFinishedError == "TxFinishedError"
LogError == "LogError"
EmptyUpdate == "Update data cannot be empty"
EmptyCreate == "Data cannot be empty"
NotFound == "not found"

(* ------------------------------ getAll --------------------------------- *)
Has(obj, k) == k \in DOMAIN obj

\* OffsetOf one page too far: page * limit.
OffsetOffByOne(query) ==
  (IF "page" \in DOMAIN query THEN query.page ELSE DefaultPage)
  * (IF "limit" \in DOMAIN query THEN query.limit ELSE DefaultLimit)

\* const { page = 1, limit = 10, ... } = query
PageOf(query) == IF Has(query, "page") THEN query.page ELSE DefaultPage
LimitOf(query) == IF Has(query, "limit") THEN query.limit ELSE DefaultLimit
OffsetOf(query) == (PageOf(query) - 1) * LimitOf(query)

\* if (search): a non-empty string is truthy.
SearchGiven(query) == Has(query, "search") /\ query.search # <<>>

\* The Op.or terms: one LIKE %search% per STRING attribute.
SearchTerms(search) ==
  LET keep == SelectSeq(AttrKeys, LAMBDA a : RawAttributes[a] = "STRING")
  IN  [i \in 1..Len(keep) |-> [attr |-> keep[i], like |-> <<"%">> \o search \o <<"%">>]]

\* where = {}; where[Op.or] = ...; where[key] = filter[key] for each key.
WhereOf(query) ==
  LET w1 == IF SearchGiven(query) THEN (OpOr :> SearchTerms(query.search)) ELSE <<>>
      f == IF Has(query, "filter") THEN query.filter ELSE <<>>
  IN  [k \in (DOMAIN w1) \cup (DOMAIN f) |-> IF k \in DOMAIN f THEN f[k] ELSE w1[k]]

\* OrderOf with the direction passed on as typed.
OrderOfAsTyped(query) ==
  IF "sort" \in DOMAIN query /\ query.sort # <<>>
  THEN <<<<SplitColon(query.sort)[1], SplitColon(query.sort)[2]>>>>
  ELSE <<>>

\* sort.split(":") destructured into [field, direction].
SortParts(query) == SplitColon(query.sort)
SortGiven(query) == Has(query, "sort") /\ query.sort # <<>>
\* direction is undefined when the string holds no separator: toUpperCase throws.
SortThrows(query) == SortGiven(query) /\ Len(SortParts(query)) < 2
OrderOf(query) ==
  IF SortGiven(query)
  THEN <<<<SortParts(query)[1], ToUpperCase(SortParts(query)[2])>>>>
  ELSE <<>>

\* FindOptions with paranoid switched off.
FindOptionsParanoidOff(query) ==
  [where |-> WhereOf(query), limit |-> ParseInt(LimitOf(query)),
   offset |-> ParseInt(OffsetOf(query)), order |-> OrderOf(query), paranoid |-> FALSE]

FindOptions(query) ==
  [where |-> WhereOf(query), limit |-> ParseInt(LimitOf(query)),
   offset |-> ParseInt(OffsetOf(query)), order |-> OrderOf(query), paranoid |-> TRUE]

GetAllValue(query, result) ==
  [rows |-> result.rows, count |-> result.count,
   totalPages |-> CeilDiv(result.count, LimitOf(query)),
   currentPage |-> ParseInt(PageOf(query))]

(* --------------------------- settled calls ----------------------------- *)
Idle == [pc |-> "idle"]

\* One call to the store, the transaction or sequelize, and whether it resolved.
Ev(call, ok) == [call |-> call, ok |-> ok]

\* What one call left behind: how it settled, the error that first went wrong
\* (cause), what logger.error received, the store and transaction calls it
\* made, and whether a write of it reached the committed table.
Settled(op, args, kind, value, thrown, cause, errlog, calls, applied, extra) ==
  [op |-> op, args |-> args, kind |-> kind, value |-> value,
   thrown |-> thrown, cause |-> cause, errlog |-> errlog, calls |-> calls,
   applied |-> applied, extra |-> extra]

Returned(op, args, value, calls, applied, extra) ==
  Settled(op, args, "return", value, NoError, NoError, <<>>, calls, applied, extra)

\* catch (error) { logger.error(...); throw error; }
CaughtLoggedThrown(op, args, error, calls, applied, extra) ==
  Settled(op, args, "throw", <<>>, error, error, <<error>>, calls, applied, extra)

NoCall ==
  Settled("none", <<>>, "none", <<>>, NoError, NoError, <<>>, <<>>, FALSE, <<>>)

\* The pages of one listing read in a row: continued when this call asks the
\* page after the one the previous settled call returned, with the same
\* options otherwise; started by a call for page 1.
SameListing(q1, q2) ==
  /\ LimitOf(q1) = LimitOf(q2)
  /\ WhereOf(q1) = WhereOf(q2)
  /\ OrderOf(q1) = OrderOf(q2)
Listing(query, value) ==
  IF PageOf(query) = 1 THEN [upTo |-> 1, rows |-> value.rows]
  ELSE IF /\ last.op = "getAll" /\ last.kind = "return"
          /\ last.extra.listing.upTo + 1 = PageOf(query)
          /\ SameListing(last.args, query)
  THEN [upTo |-> PageOf(query), rows |-> last.extra.listing.rows \o value.rows]
  ELSE [upTo |-> 0, rows |-> <<>>]

\* REST_API.getAll(model, query)
GetAll(p, query) ==
  /\ req[p] = Idle
  /\ UNCHANGED <<store, nextId, returning, req, deletedOk>>
  /\ IF SortThrows(query)
     THEN last' = CaughtLoggedThrown("getAll", query, TypeError, <<>>, FALSE, <<>>)
     ELSE LET options == FindOptions(query)
              sent == [options |-> options]
          IN  \/ last' = CaughtLoggedThrown("getAll", query, StoreError,
                                            <<Ev("findAndCountAll", FALSE)>>, FALSE, sent)
              \/ /\ OrderValid(options.order)
                 /\ LET value == GetAllValue(query, FindAndCountAll(store, options))
                    IN  \/ last' = CaughtLoggedThrown("getAll", query, LogError,
                                                      <<Ev("findAndCountAll", TRUE)>>, FALSE, sent)
                        \/ last' = Returned("getAll", query, value, <<Ev("findAndCountAll", TRUE)>>,
                                            FALSE,
                                            [options |-> options,
                                             listing |-> Listing(query, value)])

(* ------------------------ getDataListByField --------------------------- *)
\* REST_API.getDataListByField(model, fieldName, fieldValue)
GetDataListByField(p, fieldName, fieldValue) ==
  /\ req[p] = Idle
  /\ UNCHANGED <<store, nextId, returning, req, deletedOk>>
  /\ LET args == [fieldName |-> fieldName, fieldValue |-> fieldValue]
         result == FindAll(store, [where |-> (fieldName :> fieldValue), paranoid |-> TRUE])
     IN  \/ last' = CaughtLoggedThrown("getDataListByField", args, StoreError,
                                       <<Ev("findAll", FALSE)>>, FALSE, <<>>)
         \/ /\ Len(result) = 0
            /\ last' = CaughtLoggedThrown("getDataListByField", args, NotFound,
                                          <<Ev("findAll", TRUE)>>, FALSE, <<>>)
         \/ /\ Len(result) # 0
            /\ \/ last' = CaughtLoggedThrown("getDataListByField", args, LogError,
                                             <<Ev("findAll", TRUE)>>, FALSE, <<>>)
               \/ last' = Returned("getDataListByField", args, result,
                                   <<Ev("findAll", TRUE)>>, FALSE, <<>>)

(* --------------------------- transactions ------------------------------ *)
\* A payload as JavaScript passes it: null, undefined or an object.
PNull == [kind |-> "null", obj |-> <<>>]
PUndefined == [kind |-> "undefined", obj |-> <<>>]
PObject(obj) == [kind |-> "object", obj |-> obj]

\* !data || Object.keys(data).length === 0
IsEmpty(data) == data.kind # "object" \/ DOMAIN data.obj = {}

\* InFlight without the empty-payload check.
InFlightUnchecked(op, id, data, emptyError) ==
  [pc |-> "write", op |-> op, id |-> id, data |-> data, err |-> NoError,
   tx |-> "open", pending |-> {}, hasRows |-> FALSE, rows |-> <<>>,
   calls |-> <<Ev("transaction", TRUE)>>, applied |-> FALSE]

\* A create/update call suspended at an await, after sequelize.transaction()
\* resolved.  tx is the transaction object's `finished` field ("open" while
\* it has none); pending is what the transaction wrote and has not committed.
InFlight(op, id, data, emptyError) ==
  [pc |-> IF IsEmpty(data) THEN "catch" ELSE "write", op |-> op, id |-> id, data |-> data,
   err |-> IF IsEmpty(data) THEN emptyError ELSE NoError,
   tx |-> "open", pending |-> {}, hasRows |-> FALSE, rows |-> <<>>,
   calls |-> <<Ev("transaction", TRUE)>>, applied |-> FALSE]

ArgsOf(r) == [id |-> r.id, data |-> r.data]

\* The row is write-locked by another request's open transaction: a statement
\* on it waits until that transaction ends.
Locked(p, id) ==
  \E r \in Procs \ {p} :
    /\ req[r] # Idle
    /\ req[r].tx = "open"
    /\ \E row \in req[r].pending : row.id = id

\* The committed table once a transaction's writes are applied.
Apply(s, pending) ==
  LET ids == {row.id : row \in pending}
  IN  [i \in (DOMAIN s) \cup ids |->
         IF i \in ids THEN CHOOSE row \in pending : row.id = i ELSE s[i]]

\* catch (error) { await transaction.rollback(); logger.error(...); throw error; }
\* rollback() throws on a transaction that commit() already finished.
RollbackLogThrow(p) ==
  LET r == req[p]
  IN  /\ r.pc = "catch"
      /\ req' = [req EXCEPT ![p] = Idle]
      /\ UNCHANGED <<store, nextId, returning, deletedOk>>
      /\ IF r.tx # "open"
         THEN last' = Settled(r.op, ArgsOf(r), "throw", <<>>, TxFinishedError, r.err, <<>>,
                              Append(r.calls, Ev("rollback", FALSE)), r.applied, <<>>)
         ELSE \/ last' = Settled(r.op, ArgsOf(r), "throw", <<>>, RollbackError, r.err, <<>>,
                                 Append(r.calls, Ev("rollback", FALSE)), r.applied, <<>>)
              \/ last' = Settled(r.op, ArgsOf(r), "throw", <<>>, r.err, r.err, <<r.err>>,
                                 Append(r.calls, Ev("rollback", TRUE)), r.applied, <<>>)

\* await transaction.commit(): resolved, or rejected; either way the
\* transaction object is finished ("commit") afterwards.
CommitOutcomes == {"ok", "failed"}
Committed(s, r, outcome) == IF outcome = "failed" THEN s ELSE Apply(s, r.pending)
AfterCommit(r, outcome) ==
  [r EXCEPT !.tx = "commit", !.applied = (outcome # "failed"),
            !.calls = Append(r.calls, Ev("commit", outcome = "ok"))]
ToCatch(r, error) == [r EXCEPT !.pc = "catch", !.err = error]

(* ------------------------------ create --------------------------------- *)
\* new row for model.create(data): the next auto-increment id, not deleted.
NewRow(id, obj) ==
  [id |-> id, title |-> obj.title, org |-> obj.org, n |-> obj.n, deleted |-> FALSE]

Creating == {r \in Procs : req[r] # Idle /\ req[r].op = "create" /\ req[r].pc = "write"}

\* REST_API.create up to its first await: sequelize.transaction(), then the
\* empty-payload check.
CreateBegin(p, data) ==
  /\ req[p] = Idle
  /\ IsEmpty(data) \/ nextId + Cardinality(Creating) <= MaxId
  /\ UNCHANGED <<store, nextId, returning, deletedOk>>
  /\ \/ /\ last' = Settled("create", [id |-> 0, data |-> data], "throw", <<>>, TxOpenError,
                           TxOpenError, <<>>, <<Ev("transaction", FALSE)>>, FALSE, <<>>)
        /\ UNCHANGED req
     \/ /\ req' = [req EXCEPT ![p] = InFlight("create", 0, data, EmptyCreate)]
        /\ last' = NoCall

\* await model.create(data, { transaction })
CreateWrite(p) ==
  LET r == req[p]
  IN  /\ r.pc = "write" /\ r.op = "create"
      /\ UNCHANGED <<store, returning, deletedOk>>
      /\ last' = NoCall
      /\ \/ /\ req' = [req EXCEPT ![p] =
                         ToCatch([r EXCEPT !.calls = Append(r.calls, Ev("create", FALSE))],
                                 StoreError)]
            /\ UNCHANGED nextId
         \/ /\ req' = [req EXCEPT ![p] =
                         [r EXCEPT !.pc = "commit",
                                   !.pending = {NewRow(nextId, r.data.obj)},
                                   !.hasRows = TRUE,
                                   !.rows = <<NewRow(nextId, r.data.obj)>>,
                                   !.calls = Append(r.calls, Ev("create", TRUE))]]
            /\ nextId' = nextId + 1

\* await transaction.commit(); logger.info(...); return result;
CreateCommit(p) ==
  LET r == req[p]
  IN  /\ r.pc = "commit" /\ r.op = "create"
      /\ UNCHANGED <<nextId, returning, deletedOk>>
      /\ \E outcome \in CommitOutcomes :
           /\ store' = Committed(store, r, outcome)
           /\ IF outcome # "ok"
              THEN /\ req' = [req EXCEPT ![p] = ToCatch(AfterCommit(r, outcome), CommitError)]
                   /\ last' = NoCall
              ELSE \/ /\ req' = [req EXCEPT ![p] = ToCatch(AfterCommit(r, outcome), LogError)]
                      /\ last' = NoCall
                   \/ /\ req' = [req EXCEPT ![p] = Idle]
                      /\ last' = Returned("create", ArgsOf(r), r.rows[1],
                                          AfterCommit(r, outcome).calls, TRUE, <<>>)

CreateCatch(p) == req[p] # Idle /\ req[p].op = "create" /\ RollbackLogThrow(p)

(* ------------------------------ update --------------------------------- *)
\* Merge that replaces the row: fields the payload does not name are reset.
MergeReplace(row, obj) ==
  [k \in DOMAIN row |->
     IF k \in DOMAIN obj THEN obj[k]
     ELSE IF k \in {"id", "deleted"} THEN row[k]
     ELSE IF k = "n" THEN 0 ELSE <<>>]

\* The row with the fields named in the payload replaced.
Merge(row, obj) == [k \in DOMAIN row |-> IF k \in DOMAIN obj THEN obj[k] ELSE row[k]]

\* REST_API.update up to its first await.
UpdateBegin(p, id, data) ==
  /\ req[p] = Idle
  /\ UNCHANGED <<store, nextId, returning, deletedOk>>
  /\ \/ /\ last' = Settled("update", [id |-> id, data |-> data], "throw", <<>>, TxOpenError,
                           TxOpenError, <<>>, <<Ev("transaction", FALSE)>>, FALSE, <<>>)
        /\ UNCHANGED req
     \/ /\ req' = [req EXCEPT ![p] = InFlight("update", id, data, EmptyUpdate)]
        /\ last' = NoCall

\* await model.update(data, { where: { id }, returning: true, transaction,
\* paranoid: true }), then the updatedRowsCount === 0 check.
UpdateWrite(p) ==
  LET r == req[p]
      hit == Selected(store, [id |-> r.id], TRUE)
      updatedRows == Ordered([i \in hit |-> Merge(store[i], r.data.obj)], <<>>, hit)
  IN  /\ r.pc = "write" /\ r.op = "update"
      /\ ~Locked(p, r.id)
      /\ UNCHANGED <<store, nextId, returning, deletedOk>>
      /\ last' = NoCall
      /\ \/ req' = [req EXCEPT ![p] =
                      ToCatch([r EXCEPT !.calls = Append(r.calls, Ev("update", FALSE))],
                              StoreError)]
         \/ /\ Cardinality(hit) = 0
            /\ req' = [req EXCEPT ![p] =
                         ToCatch([r EXCEPT !.calls = Append(r.calls, Ev("update", TRUE))],
                                 NotFound)]
         \/ /\ Cardinality(hit) # 0
            /\ req' = [req EXCEPT ![p] =
                         [r EXCEPT !.pc = "commit",
                                   !.pending = {updatedRows[k] : k \in 1..Len(updatedRows)},
                                   !.hasRows = returning,
                                   !.rows = IF returning THEN updatedRows ELSE <<>>,
                                   !.calls = Append(r.calls, Ev("update", TRUE))]]

\* await transaction.commit(); logger.info(...); return updatedRows[0];
\* updatedRows is undefined where the dialect returns no rows.
UpdateCommit(p) ==
  LET r == req[p]
  IN  /\ r.pc = "commit" /\ r.op = "update"
      /\ UNCHANGED <<nextId, returning, deletedOk>>
      /\ \E outcome \in CommitOutcomes :
           /\ store' = Committed(store, r, outcome)
           /\ IF outcome # "ok"
              THEN /\ req' = [req EXCEPT ![p] = ToCatch(AfterCommit(r, outcome), CommitError)]
                   /\ last' = NoCall
              ELSE \/ /\ req' = [req EXCEPT ![p] = ToCatch(AfterCommit(r, outcome), LogError)]
                      /\ last' = NoCall
                   \/ /\ ~r.hasRows
                      /\ req' = [req EXCEPT ![p] = ToCatch(AfterCommit(r, outcome), TypeError)]
                      /\ last' = NoCall
                   \/ /\ r.hasRows
                      /\ req' = [req EXCEPT ![p] = Idle]
                      /\ last' = Returned("update", ArgsOf(r), r.rows[1],
                                          AfterCommit(r, outcome).calls, TRUE, <<>>)

UpdateCatch(p) == req[p] # Idle /\ req[p].op = "update" /\ RollbackLogThrow(p)

(* ------------------------------ delete --------------------------------- *)
\* model.destroy({ where: { id } }) on a paranoid model: the matching rows
\* that are not deleted get deletedAt set.
Destroyed(s, hit) ==
  [i \in DOMAIN s |-> IF i \in hit THEN [s[i] EXCEPT !.deleted = TRUE] ELSE s[i]]

\* REST_API.delete(model, id)
Delete(p, id) ==
  LET hit == Selected(store, [id |-> id], TRUE)
      args == [id |-> id]
  IN  /\ req[p] = Idle
      /\ ~Locked(p, id)
      /\ UNCHANGED <<nextId, returning, req>>
      /\ \/ /\ last' = CaughtLoggedThrown("delete", args, StoreError,
                                          <<Ev("destroy", FALSE)>>, FALSE, <<>>)
            /\ UNCHANGED <<store, deletedOk>>
         \/ /\ Cardinality(hit) = 0
            /\ last' = CaughtLoggedThrown("delete", args, NotFound,
                                          <<Ev("destroy", TRUE)>>, FALSE, <<>>)
            /\ UNCHANGED <<store, deletedOk>>
         \/ /\ Cardinality(hit) # 0
            /\ store' = Destroyed(store, hit)
            /\ \/ /\ last' = CaughtLoggedThrown("delete", args, LogError,
                                                <<Ev("destroy", TRUE)>>, TRUE, <<>>)
                  /\ UNCHANGED deletedOk
               \/ /\ last' = Returned("delete", args, "deleted",
                                      <<Ev("destroy", TRUE)>>, TRUE, <<>>)
                  /\ deletedOk' = deletedOk \cup {id}

(* --------------------------- inputs: queries --------------------------- *)
Titles == {<<"a">>, <<"a", "b">>}
Orgs == {<<"b">>}
Ns == {0, 1}
Rows(i) == [id : {i}, title : Titles, org : Orgs, n : Ns, deleted : BOOLEAN]
Tables == UNION {{t \in [1..k -> UNION {Rows(i) : i \in 1..k}] : \A i \in 1..k : t[i].id = i} : k \in 0..MaxId}

Searches == {<<>>, <<"a">>, <<"b">>, <<"a", "b">>, <<"b", "a">>, <<"_">>, <<"%">>}
Filters == {<<>>, [title |-> <<"a">>], [n |-> 1], [org |-> <<"b">>, n |-> 0]}
Sorts == {<<>>, S_title \o <<Colon>> \o S_asc, S_title \o <<Colon>> \o S_Desc,
          S_n \o <<Colon>> \o S_desc, S_org \o <<Colon>> \o S_ASC, S_title, S_n \o S_asc}

Paging == {<<>>} \cup {[page |-> pg] : pg \in 1..MaxPage} \cup {[limit |-> l] : l \in 1..MaxLimit}
            \cup {[page |-> pg, limit |-> l] : pg \in 1..MaxPage, l \in 1..MaxLimit}

PagingQueries ==
  {pq @@ x : pq \in Paging,
             x \in {<<>>, [filter |-> [n |-> 1]], [sort |-> S_title \o <<Colon>> \o S_Desc]}}
WhereQueries ==
  {s @@ f : s \in {<<>>} \cup {[search |-> x] : x \in Searches},
            f \in {<<>>} \cup {[filter |-> x] : x \in Filters}}
SortQueries ==
  {s @@ x : s \in {[sort |-> x] : x \in Sorts}, x \in {<<>>, [limit |-> 1], [search |-> <<"a">>]}}

(* ------------------------- the listing service ------------------------- *)
\* Requests that only list: any table the store can hold, any query.
QInit ==
  /\ store \in Tables
  /\ nextId = Cardinality(DOMAIN store) + 1
  /\ returning = TRUE
  /\ req = [p \in Procs |-> Idle]
  /\ last = NoCall
  /\ deletedOk = {}

\* The query of the page after the one just returned.
NextPageOf(query) == ("page" :> (PageOf(query) + 1)) @@ query

QNext ==
  \/ last = NoCall /\ \E q \in PagingQueries : GetAll("r1", q)
  \/ last = NoCall /\ \E q \in WhereQueries : GetAll("r1", q)
  \/ last = NoCall /\ \E q \in SortQueries : GetAll("r1", q)
  \/ /\ last.op = "getAll" /\ last.kind = "return"
     /\ PageOf(last.args) <= MaxPage
     /\ GetAll("r1", NextPageOf(last.args))

SpecQuery == QInit /\ [][QNext]_vars

(* ----------------------------- the service ----------------------------- *)
Ids == 1..MaxId
CreateData ==
  {PNull, PUndefined, PObject(<<>>), PObject([title |-> <<"a">>, org |-> <<"b">>, n |-> 0])}
UpdateData == {PNull, PUndefined, PObject(<<>>), PObject([title |-> <<"a", "b">>])}
MainQueries == {<<>>, [search |-> <<"b">>, limit |-> 1]}
Lookups == {<<"id", i>> : i \in Ids}

Init ==
  /\ store = <<>>
  /\ nextId = 1
  /\ returning \in BOOLEAN
  /\ req = [p \in Procs |-> Idle]
  /\ last = NoCall
  /\ deletedOk = {}

\* One request runs create and update calls, await by await; the other
\* requests' reads and deletes, each one statement, fall between its steps.
Writer == "r1"
Others == Procs \ {Writer}

Next ==
  \/ \E p \in Others, q \in MainQueries : GetAll(p, q)
  \/ \E p \in Others, l \in Lookups : GetDataListByField(p, l[1], l[2])
  \/ \E p \in Others, i \in Ids : Delete(p, i)
  \/ \E d \in CreateData : CreateBegin(Writer, d)
  \/ CreateWrite(Writer)
  \/ CreateCommit(Writer)
  \/ CreateCatch(Writer)
  \/ \E i \in Ids, d \in UpdateData : UpdateBegin(Writer, i, d)
  \/ UpdateWrite(Writer)
  \/ UpdateCommit(Writer)
  \/ UpdateCatch(Writer)

Spec == Init /\ [][Next]_vars

(* ======================== properties of REST_API ======================== *)
Writes == {"create", "update"}
Reads == {"getAll", "getDataListByField"}
CallsTo(c, name) == {k \in 1..Len(c.calls) : c.calls[k].call = name}
Resolved(c, name) == {k \in CallsTo(c, name) : c.calls[k].ok}

\* t occurs in s as a run of consecutive characters.
Contains(s, t) == \E k \in 0..(Len(s) - Len(t)) : SubSeq(s, k + 1, k + Len(t)) = t

\* No row that is not deleted carries this value in this column.
NoLive(s, col, v) == \A i \in DOMAIN s : s[i][col] = v => s[i].deleted

\* C1: a create or update call whose transaction opened (and whose rollback,
\* where one was asked on the open transaction, the database carried out)
\* opens one transaction and finishes it once: committed and never rolled
\* back exactly when the call returns, rolled back and never committed
\* exactly when it throws; in particular rollback never follows commit.
C1_TransactionFinishedOnce ==
  (/\ last.op \in Writes
   /\ Resolved(last, "transaction") # {}
   /\ last.thrown # RollbackError)
  => /\ Cardinality(CallsTo(last, "transaction")) = 1
     /\ Cardinality(CallsTo(last, "commit")) + Cardinality(CallsTo(last, "rollback")) = 1
     /\ last.kind = "return" <=> (Resolved(last, "commit") # {} /\ CallsTo(last, "rollback") = {})
     /\ last.kind = "throw" <=> (Resolved(last, "rollback") # {} /\ CallsTo(last, "commit") = {})

\* C2: whichever of the five operations fails, and at whichever step, the
\* error that went wrong first is given to logger.error exactly once and is
\* the error the call throws.
C2_FailureLoggedOnceAndRethrown ==
  last.kind = "throw" => (last.errlog = <<last.cause>> /\ last.thrown = last.cause)

\* C3: create or update with an empty payload (null, undefined, {}) never
\* writes: it throws, model.create / model.update is not called, nothing of
\* it reaches the table, it never commits, and the transaction it opened is
\* handed to rollback, once; with the rollback carried out the error thrown
\* is the empty-payload error of that operation.
C3_EmptyPayloadRejected ==
  /\ \A p \in Procs :
       (req[p] # Idle /\ IsEmpty(req[p].data))
       => /\ req[p].pc = "catch"
          /\ req[p].pending = {}
          /\ req[p].err = (IF req[p].op = "create" THEN EmptyCreate ELSE EmptyUpdate)
  /\ (last.op \in Writes /\ IsEmpty(last.args.data))
     => /\ last.kind = "throw"
        /\ CallsTo(last, "create") \cup CallsTo(last, "update") \cup CallsTo(last, "commit") = {}
        /\ ~last.applied
        /\ Resolved(last, "transaction") # {}
           => /\ CallsTo(last, "rollback") = {Len(last.calls)}
              /\ Len(last.calls) = 2
        /\ Resolved(last, "rollback") # {}
           => /\ last.thrown = (IF last.op = "create" THEN EmptyCreate ELSE EmptyUpdate)
              /\ last.errlog = <<last.thrown>>

C3_Witness ==
  /\ last.op = "update"
  /\ last.args.data = PObject(<<>>)
  /\ last.thrown = EmptyUpdate
  /\ Resolved(last, "rollback") # {}
  /\ store # <<>>

\* C4: with no row that is not deleted matching the target, the call throws
\* and the table stays as it was: getDataListByField throws not-found (and
\* never returns an empty list); the update statement finds nothing, so the
\* call goes to its catch block with not-found, rolls back and throws;
\* delete throws not-found, in particular on an id whose delete returned
\* before.
C4_Step ==
  /\ (last'.op = "getDataListByField"
      /\ NoLive(store, last'.args.fieldName, last'.args.fieldValue))
     => /\ last'.kind = "throw"
        /\ last'.calls[1].ok => last'.thrown = NotFound
        /\ store' = store
  /\ (last'.op = "getDataListByField" /\ last'.kind = "return") => Len(last'.value) > 0
  /\ \A p \in Procs :
       (/\ req[p].pc = "write"
        /\ req[p].op = "update"
        /\ req'[p] # req[p]
        /\ NoLive(store, "id", req[p].id))
       => /\ req'[p].pc = "catch"
          /\ req'[p].calls[Len(req'[p].calls)].ok => req'[p].err = NotFound
          /\ req'[p].pending = {}
          /\ store' = store
  /\ (last'.op = "update" /\ last'.cause = NotFound)
     => /\ last'.kind = "throw"
        /\ CallsTo(last', "rollback") = {Len(last'.calls)}
        /\ CallsTo(last', "commit") = {}
        /\ ~last'.applied
        /\ store' = store
        /\ Resolved(last', "rollback") # {} => last'.thrown = NotFound
  /\ (last'.op = "delete" /\ NoLive(store, "id", last'.args.id))
     => /\ last'.kind = "throw"
        /\ last'.calls[1].ok => last'.thrown = NotFound
        /\ store' = store
  /\ (last'.op = "delete" /\ last'.args.id \in deletedOk) => last'.kind = "throw"

C4_NotFoundThrows == [][C4_Step]_vars

C4_Witness ==
  /\ last.op = "delete"
  /\ last.thrown = NotFound
  /\ last.args.id \in deletedOk

\* C5: once delete(id) has returned "deleted", the row never changes again
\* (it stays deleted, no update touches it: the update statement on that id
\* finds nothing and the call goes to its catch block), getAll neither
\* returns nor counts it, and getDataListByField never returns it.
C5_Hidden ==
  /\ (last.op = "getAll" /\ last.kind = "return")
     => /\ \A k \in 1..Len(last.value.rows) : last.value.rows[k].id \notin deletedOk
        /\ last.value.count =
             Cardinality({i \in (DOMAIN store) \ deletedOk :
                            /\ ~store[i].deleted
                            /\ Satisfies(store[i], last.extra.options.where)})
  /\ (last.op = "getDataListByField" /\ last.kind = "return")
     => \A k \in 1..Len(last.value) : last.value[k].id \notin deletedOk

C5_Frozen ==
  /\ \A i \in deletedOk : i \in DOMAIN store' /\ store'[i] = store[i] /\ store[i].deleted
  /\ deletedOk \subseteq deletedOk'
  /\ \A p \in Procs :
       (/\ req[p].pc = "write"
        /\ req[p].op = "update"
        /\ req'[p] # req[p]
        /\ req[p].id \in deletedOk)
       => (req'[p].pc = "catch" /\ req'[p].err \in {NotFound, StoreError})

C5_SoftDeletePermanent == []C5_Hidden /\ [][C5_Frozen]_vars

C5_Witness ==
  /\ last.op = "getAll"
  /\ last.kind = "return"
  /\ deletedOk # {}
  /\ last.value.count > 0

\* C8: a create or update call that ends by throwing has left the committed
\* table as it was before the call.
C8_ThrowLeavesStoreUnchanged ==
  (last.op \in Writes /\ last.kind = "throw") => ~last.applied

\* C9: every step of an update call leaves all rows but the one with its id
\* as they were, and on that row, which is not deleted, the fields the
\* payload does not name; an update that returns returns that row as the
\* table then holds it, with the payload's values.  A delete changes no row
\* but the one with its id.  getAll and getDataListByField change no row,
\* open no transaction and leave every request in flight alone, whether
\* they return or throw.
C9_Step ==
  /\ \A p \in Procs :
       (req[p] # Idle /\ req[p].op = "update" /\ req'[p] # req[p])
       => /\ DOMAIN store' = DOMAIN store
          /\ \A j \in DOMAIN store :
               IF j = req[p].id
               THEN /\ \A k \in (DOMAIN store[j]) \ (DOMAIN req[p].data.obj) :
                         store'[j][k] = store[j][k]
                    /\ store'[j] # store[j] => ~store[j].deleted
               ELSE store'[j] = store[j]
          /\ last'.kind = "return"
             => /\ last'.op = "update"
                /\ last'.value = store'[req[p].id]
                /\ \A k \in DOMAIN req[p].data.obj :
                     store'[req[p].id][k] = req[p].data.obj[k]
  /\ last'.op = "delete"
     => /\ DOMAIN store' = DOMAIN store
        /\ \A j \in DOMAIN store : j # last'.args.id => store'[j] = store[j]
  /\ last'.op \in Reads
     => /\ store' = store
        /\ nextId' = nextId
        /\ req' = req
        /\ CallsTo(last', "transaction") = {}

C9_Frame == [][C9_Step]_vars

C9_Witness ==
  /\ last.op = "update"
  /\ last.kind = "return"
  /\ \E j \in DOMAIN store : j # last.args.id /\ ~store[j].deleted
  /\ last.value.title # <<"a">>

(* --------------------------- listing claims ---------------------------- *)
ListedOk == last.op = "getAll" /\ last.kind = "return"
AskedPage == IF "page" \in DOMAIN last.args THEN last.args.page ELSE 1
AskedLimit == IF "limit" \in DOMAIN last.args THEN last.args.limit ELSE 10
\* The rows matching the where object the call sent, in the order it asked.
Matching == {i \in DOMAIN store : ~store[i].deleted /\ Satisfies(store[i], last.extra.options.where)}
MatchingInOrder == Ordered(store, last.extra.options.order, Matching)
Smaller(a, b) == IF a < b THEN a ELSE b

\* C6: getAll returns the rows at positions (page-1)*limit .. page*limit-1
\* of the ordered matching rows, their total as count, the least number of
\* pages of that limit holding them as totalPages and the page asked as
\* currentPage; pages 1..n read in a row hold the first n*limit matching
\* rows, so pages 1..totalPages hold each matching row once, and a page past
\* totalPages is empty.
C6_Pagination ==
  ListedOk
  => LET v == last.value
         from == (AskedPage - 1) * AskedLimit
         upto == Smaller(AskedPage * AskedLimit, Len(MatchingInOrder))
         listing == last.extra.listing
     IN  /\ v.count = Cardinality(Matching)
         /\ Len(v.rows) = (IF upto > from THEN upto - from ELSE 0)
         /\ \A k \in 1..Len(v.rows) : v.rows[k] = MatchingInOrder[from + k]
         /\ v.totalPages * AskedLimit >= v.count
         /\ (v.totalPages - 1) * AskedLimit < v.count
         /\ v.totalPages >= 0
         /\ v.currentPage = AskedPage
         /\ AskedPage > v.totalPages => v.rows = <<>>
         /\ listing.upTo = AskedPage
            => /\ Len(listing.rows) = upto
               /\ \A k \in 1..upto : listing.rows[k] = MatchingInOrder[k]
               /\ AskedPage >= v.totalPages
                  => \A i \in Matching :
                       Cardinality({k \in 1..Len(listing.rows) : listing.rows[k].id = i}) = 1

C6_Witness ==
  /\ ListedOk
  /\ last.extra.listing.upTo = 2
  /\ last.value.totalPages = 2
  /\ AskedPage = 2
  /\ Len(last.value.rows) = 1
  /\ Len(last.extra.listing.rows) = 2

\* C7: a row is in the matching set of getAll exactly when it is not
\* deleted, equals the filter on every filter key and, a search term given,
\* has a STRING attribute that contains the term.
C7_WhereClause ==
  ListedOk
  => LET q == last.args
         expected ==
           {i \in DOMAIN store :
              /\ ~store[i].deleted
              /\ "filter" \in DOMAIN q => \A k \in DOMAIN q.filter : store[i][k] = q.filter[k]
              /\ "search" \in DOMAIN q
                 => \E a \in {"title", "org"} : Contains(store[i][a], q.search)}
     IN  /\ last.value.count = Cardinality(expected)
         /\ \A k \in 1..Len(last.value.rows) : last.value.rows[k].id \in expected

\* C10: a sort "field:direction" reaches the store as the one ordering term
\* [field, DIRECTION] and the rows come back ordered by it; no sort, no
\* ordering term; a non-empty sort without ':' makes getAll throw a logged
\* TypeError before any store call.
SortForms ==
  {[sort |-> f \o <<":">> \o d[1], field |-> f, column |-> c, dir |-> d[2]] :
     f \in {S_title, S_org, S_n}, c \in {"title", "org", "n"},
     d \in {<<S_asc, S_ASC>>, <<S_desc, S_DESC>>, <<S_Desc, S_DESC>>, <<S_ASC, S_ASC>>}}

C10_Sort ==
  last.op = "getAll"
  => /\ \A sf \in SortForms :
          ("sort" \in DOMAIN last.args /\ last.args.sort = sf.sort /\ ColumnOf(sf.field) = sf.column)
          => /\ last.calls # <<>>
             /\ last.extra.options.order = <<<<sf.field, sf.dir>>>>
             /\ last.kind = "return"
                => \A k \in 1..(Len(last.value.rows) - 1) :
                     IF sf.dir = S_ASC
                     THEN ~ValueLess(sf.column, last.value.rows[k + 1][sf.column],
                                     last.value.rows[k][sf.column])
                     ELSE ~ValueLess(sf.column, last.value.rows[k][sf.column],
                                     last.value.rows[k + 1][sf.column])
     /\ "sort" \notin DOMAIN last.args
        => (last.calls # <<>> /\ last.extra.options.order = <<>>)
     /\ ("sort" \in DOMAIN last.args /\ last.args.sort # <<>>
         /\ \A k \in 1..Len(last.args.sort) : last.args.sort[k] # ":")
        => /\ last.kind = "throw"
           /\ last.thrown = TypeError
           /\ last.errlog = <<TypeError>>
           /\ last.calls = <<>>

C10_Witness ==
  /\ last.op = "getAll"
  /\ last.thrown = TypeError
  /\ last.calls = <<>>
  /\ last.args.sort = S_title
  /\ Cardinality(DOMAIN store) = 2

====
